---- MODULE Spec2Model ----
(***************************************************************************)
(* The bit-banged synchronous receiver of virtualserial.py: four digital   *)
(* lines (Notify, Enable, Data, Clock), a per-bit enable/clock handshake,  *)
(* LSB-first byte assembly and line-feed message framing, together with    *)
(* the peer that drives the three input lines.                             *)
(***************************************************************************)
EXTENDS Integers, Sequences, FiniteSets, TLC

\* ------------------------------------------------------------------ bounds
\* Bytes the peer may transmit before it falls silent.
MaxStream == 3
\* Unsuccessful polls counted in one busy-wait; further polls of the same
\* level repeat the same state.
MaxPolls == 2
\* Lines the logger reads from the serial port in one run.
MaxLines == 3
\* Serial errors raised in the logger's read loop in one run.
MaxErrors == 2

\* ------------------------------------------------------- program constants
LOW == 0
HIGH == 1
\* range(8) of read_char: handshakes per character.
BitsPerChar == 8
\* range(8) of bool_arr_to_char: bits combined into one character code.
AssembleWidth == 8
\* ord('\n'), the terminator tested by read_vuart_string.
LF == 10
\* BCM channel numbers of the four lines.
VIRTUAL_NOTIFY_LINE == 1
VIRTUAL_ENABLE_LINE == 7
VIRTUAL_DATA_LINE == 25
VIRTUAL_CLOCK_LINE == 24

\* Byte values the peer chooses from: line-feed, 'h', 'i', and line-feed
\* with its top bit set (a corrupted terminator).
TestBytes == {10, 104, 105, 138}

VARIABLES
    \* the four lines
    notify, enable, data, clock,
    \* receiver: position, locals of read_char and read_vuart_string, stdout
    pc, i, bits, c, received_data, received_message, stdout,
    \* a KeyboardInterrupt is propagating out of main
    interrupted,
    \* busy-wait: unsuccessful polls of the current (or last finished) wait
    polls,
    \* peer: bytes chosen so far, index of the bit on offer, position
    sent, sk, spc,
    \* history: receiver operations on Enable, Clock and Data since start-up
    \* (writes, samples, and the observations that end a wait), where the current
    \* read_char and read_vuart_string calls began in it, the levels sampled
    \* in the current read_vuart_string call, its Notify observation, and the
    \* values read_vuart_string has returned
    trace, char_start, call_start, call_bits, notif_seen, returned,
    \* pure-function harness for bool_arr_to_char
    in_bits, out_char,
    \* GPIO: direction and pull of each channel as set up, and the channels
    \* the receiver has passed to GPIO.input
    config, inputs_read,
    \* receive.py, the serial JSON logger: position, port, log files on disk,
    \* the two record lists, and history (lists as loaded, records parsed,
    \* save_json_data calls, serial errors, reopen attempts after the latest
    \* error, lines read, how the try block was left)
    lpc, ser, disk, sensor_data_list, gps_data_list, loaded, parsed, saves,
    errors, reopens, lines_read, left_by

vars == << notify, enable, data, clock, pc, i, bits, c, received_data,
           received_message, stdout, interrupted, polls, sent, sk, spc, trace, char_start,
           call_start, call_bits, notif_seen, returned, in_bits, out_char,
           config, inputs_read, lpc, ser, disk, sensor_data_list,
           gps_data_list, loaded, parsed, saves, errors, reopens, lines_read,
           left_by >>

lines == << notify, enable, data, clock >>
locals == << i, bits, c, received_data, received_message, interrupted >>
peer == << sent, sk, spc >>
history == << trace, char_start, call_start, call_bits, notif_seen, returned >>
harness == << in_bits, out_char >>
gpio == << config, inputs_read >>
logger == << lpc, ser, disk, sensor_data_list, gps_data_list, loaded, parsed,
            saves, errors, reopens, lines_read, left_by >>
\* everything of virtualserial.py
vserial == << lines, pc, locals, stdout, polls, peer, history, harness, gpio >>

\* GPIO.setup of lines 9-13: Notify, Data and Clock inputs pulled down,
\* Enable an output.
ConfigAtStart ==
    (VIRTUAL_NOTIFY_LINE :> << "IN", "PUD_DOWN" >>) @@
    (VIRTUAL_ENABLE_LINE :> << "OUT", "PUD_OFF" >>) @@
    (VIRTUAL_DATA_LINE :> << "IN", "PUD_DOWN" >>) @@
    (VIRTUAL_CLOCK_LINE :> << "IN", "PUD_DOWN" >>)

\* The logger's variables while receive.py is not running.
LoggerOff ==
    /\ lpc = "off"
    /\ ser = "None"
    /\ disk = << >>
    /\ sensor_data_list = << >>
    /\ gps_data_list = << >>
    /\ loaded = << >>
    /\ parsed = << >>
    /\ saves = << >>
    /\ errors = 0
    /\ reopens = 0
    /\ lines_read = 0
    /\ left_by = "none"

\* ---------------------------------------------------------- pure functions
BoolToInt(b) == IF b THEN 1 ELSE 0

Pow2(n) == 2 ^ n

\* x << n on Python integers.
Shl(x, n) == x * Pow2(n)

\* a | b on non-negative Python integers, bit by bit.
RECURSIVE BitOr(_, _)
BitOr(a, b) ==
    IF a = 0 THEN b
    ELSE IF b = 0 THEN a
    ELSE (IF a % 2 = 1 \/ b % 2 = 1 THEN 1 ELSE 0) + 2 * BitOr(a \div 2, b \div 2)

\* The loop body of bool_arr_to_char, iterations k .. AssembleWidth-1,
\* entered with accumulator acc.  bs is 1-indexed: bs[k+1] is bits[k].
RECURSIVE AssembleFrom(_, _, _)
AssembleFrom(bs, k, acc) ==
    IF k >= AssembleWidth THEN acc
    ELSE AssembleFrom(bs, k + 1, BitOr(acc, Shl(BoolToInt(bs[k + 1]), k)))

\* Mutant: range(7), the most significant bit is never combined.
bool_arr_to_char_range7(bs) ==
    AssembleFrom(SubSeq(bs, 1, AssembleWidth - 1) \o << FALSE >>, 0, 0)

\* Mutant: bits[i] << (7 - i), most significant bit first.
bool_arr_to_char_msb(bs) ==
    AssembleFrom([k \in 1..AssembleWidth |-> bs[AssembleWidth + 1 - k]], 0, 0)

\* bool_arr_to_char(bits): the code of the character returned by chr(c).
bool_arr_to_char(bs) == AssembleFrom(bs, 0, 0)

\* ------------------------------------------------------------------- Init
Init ==
    /\ notify = LOW
    /\ enable \in {LOW, HIGH}
    /\ data = LOW
    /\ clock = LOW
    /\ pc = "main"
    /\ i = 0
    /\ bits = << >>
    /\ c = 0
    /\ received_data = << >>
    /\ received_message = << >>
    /\ stdout = << >>
    /\ interrupted = FALSE
    /\ polls = 0
    /\ sent = << >>
    /\ sk = 0
    /\ spc = "idle"
    /\ trace = << >>
    /\ char_start = 0
    /\ call_start = 0
    /\ call_bits = << >>
    /\ notif_seen = FALSE
    /\ returned = << >>
    /\ in_bits = << >>
    /\ out_char = 0
    /\ config = ConfigAtStart
    /\ inputs_read = {}
    /\ LoggerOff

\* --------------------------------------------------------------- receiver
\* main: print("Waiting for virtual UART data...") inside the try.
main ==
    /\ pc = "main"
    /\ stdout' = Append(stdout, << "Waiting", << >> >>)
    /\ pc' = "print_received"
    /\ UNCHANGED << lines, locals, polls, peer, history, harness, gpio, logger >>

\* Mutant: read_vuart_string starts handshaking without wait_for_notif().
read_vuart_string_no_wait ==
    /\ pc = "print_received"
    /\ received_data' = << >>
    /\ pc' = "read_char"
    /\ polls' = 0
    /\ call_start' = Len(trace)
    /\ call_bits' = << >>
    /\ notif_seen' = FALSE
    /\ UNCHANGED << lines, i, bits, c, received_message, stdout, interrupted,
                    peer, trace, char_start, returned, harness, gpio, logger >>

\* Mutant: received_data is a module-level buffer that is never cleared.
read_vuart_string_keep ==
    /\ pc = "print_received"
    /\ pc' = "wait_for_notif"
    /\ polls' = 0
    /\ call_start' = Len(trace)
    /\ call_bits' = << >>
    /\ notif_seen' = FALSE
    /\ UNCHANGED << lines, i, bits, c, received_data, received_message, stdout,
                    interrupted, peer, trace, char_start, returned, harness, gpio, logger >>

\* print_received calls read_vuart_string, which starts with
\* received_data = "" and enters wait_for_notif.
read_vuart_string ==
    /\ pc = "print_received"
    /\ received_data' = << >>
    /\ pc' = "wait_for_notif"
    /\ polls' = 0
    /\ call_start' = Len(trace)
    /\ call_bits' = << >>
    /\ notif_seen' = FALSE
    /\ UNCHANGED << lines, i, bits, c, received_message, stdout, interrupted,
                    peer, trace,
                    char_start, returned, harness, gpio, logger >>

\* Mutant: wait_for_notif waits for a rising edge: it first wants to have
\* read Notify low in this call.
wait_for_notif_edge ==
    /\ pc = "wait_for_notif"
    /\ inputs_read' = inputs_read \cup {VIRTUAL_NOTIFY_LINE}
    /\ IF notify = LOW
       THEN /\ polls < MaxPolls
            /\ polls' = polls + 1
            /\ UNCHANGED << pc, notif_seen >>
       ELSE /\ polls > 0
            /\ pc' = "read_char"
            /\ notif_seen' = TRUE
            /\ UNCHANGED polls
    /\ UNCHANGED << lines, locals, stdout, peer, trace, char_start,
                    call_start, call_bits, returned, harness, config, logger >>

\* One poll of wait_for_notif: loop again on LOW, return on HIGH.
wait_for_notif ==
    /\ pc = "wait_for_notif"
    /\ inputs_read' = inputs_read \cup {VIRTUAL_NOTIFY_LINE}
    /\ IF notify = LOW
       THEN /\ polls < MaxPolls
            /\ polls' = polls + 1
            /\ UNCHANGED << pc, notif_seen >>
       ELSE /\ pc' = "read_char"
            /\ notif_seen' = TRUE
            /\ UNCHANGED polls
    /\ UNCHANGED << lines, locals, stdout, peer, trace, char_start,
                    call_start, call_bits, returned, harness, config, logger >>

\* read_char entry: bits = [] and the loop counter starts at 0.
read_char ==
    /\ pc = "read_char"
    /\ bits' = << >>
    /\ i' = 0
    /\ char_start' = Len(trace)
    /\ pc' = "for"
    /\ UNCHANGED << lines, c, received_data, received_message, stdout,
                    interrupted, polls, peer, trace, call_start, call_bits, notif_seen, returned,
                    harness, gpio, logger >>

\* Mutant: range(9), one handshake too many per character.
for_range_9 ==
    /\ pc = "for"
    /\ pc' = IF i < BitsPerChar + 1 THEN "enable" ELSE "return_char"
    /\ UNCHANGED << lines, locals, stdout, polls, peer, history, harness, gpio, logger >>

\* for _ in range(8): another iteration, or fall through to the return.
for_range ==
    /\ pc = "for"
    /\ pc' = IF i < BitsPerChar THEN "enable" ELSE "return_char"
    /\ UNCHANGED << lines, locals, stdout, polls, peer, history, harness, gpio, logger >>

\* Mutant: read_char samples right after enable(), without
\* wait_for_clock_high().
enable_line_no_wait ==
    /\ pc = "enable"
    /\ enable' = HIGH
    /\ trace' = Append(trace, "EnHi")
    /\ polls' = 0
    /\ pc' = "read"
    /\ UNCHANGED << notify, data, clock, locals, stdout, peer, char_start,
                    call_start, call_bits, notif_seen, returned, harness, gpio, logger >>

\* enable(): GPIO.output(VIRTUAL_ENABLE_LINE, GPIO.HIGH).
enable_line ==
    /\ pc = "enable"
    /\ enable' = HIGH
    /\ trace' = Append(trace, "EnHi")
    /\ polls' = 0
    /\ pc' = "wait_for_clock_high"
    /\ UNCHANGED << notify, data, clock, locals, stdout, peer, char_start,
                    call_start, call_bits, notif_seen, returned, harness, gpio, logger >>

\* Polls a wait would be allowed under a deadline shorter than the longest
\* delay of the peer.
Deadline == MaxPolls - 1

\* Mutant: wait_for_clock_high gives up at the deadline and the message is
\* abandoned for the next Notify wait.
wait_for_clock_high_deadline ==
    /\ pc = "wait_for_clock_high"
    /\ inputs_read' = inputs_read \cup {VIRTUAL_CLOCK_LINE}
    /\ IF clock = LOW
       THEN IF polls < Deadline
            THEN /\ polls' = polls + 1
                 /\ UNCHANGED << pc, trace >>
            ELSE /\ pc' = "print_received"
                 /\ UNCHANGED << polls, trace >>
       ELSE /\ pc' = "read"
            /\ trace' = Append(trace, "ClkHi")
            /\ UNCHANGED polls
    /\ UNCHANGED << lines, locals, stdout, peer, char_start, call_start,
                    call_bits, notif_seen, returned, harness, config, logger >>

\* One poll of wait_for_clock_high.
wait_for_clock_high ==
    /\ pc = "wait_for_clock_high"
    /\ inputs_read' = inputs_read \cup {VIRTUAL_CLOCK_LINE}
    /\ IF clock = LOW
       THEN /\ polls < MaxPolls
            /\ polls' = polls + 1
            /\ UNCHANGED << pc, trace >>
       ELSE /\ pc' = "read"
            /\ trace' = Append(trace, "ClkHi")
            /\ UNCHANGED polls
    /\ UNCHANGED << lines, locals, stdout, peer, char_start, call_start,
                    call_bits, notif_seen, returned, harness, config, logger >>

\* bits.append(read()): read() is GPIO.input(VIRTUAL_DATA_LINE) == GPIO.HIGH.
read ==
    /\ pc = "read"
    /\ inputs_read' = inputs_read \cup {VIRTUAL_DATA_LINE}
    /\ bits' = Append(bits, data = HIGH)
    /\ call_bits' = Append(call_bits, data = HIGH)
    /\ trace' = Append(trace, "Sample")
    /\ pc' = "disable"
    /\ UNCHANGED << lines, i, c, received_data, received_message, stdout,
                    interrupted, polls, peer, char_start, call_start, notif_seen, returned,
                    harness, config, logger >>

\* Mutant: the loop iteration ends at disable(), without
\* wait_for_clock_low().
disable_line_no_wait ==
    /\ pc = "disable"
    /\ enable' = LOW
    /\ trace' = Append(trace, "EnLo")
    /\ polls' = 0
    /\ i' = i + 1
    /\ pc' = "for"
    /\ UNCHANGED << notify, data, clock, bits, c, received_data,
                    received_message, interrupted, stdout, peer, char_start,
                    call_start, call_bits, notif_seen, returned, harness, gpio, logger >>

\* disable(): GPIO.output(VIRTUAL_ENABLE_LINE, GPIO.LOW).
disable_line ==
    /\ pc = "disable"
    /\ enable' = LOW
    /\ trace' = Append(trace, "EnLo")
    /\ polls' = 0
    /\ pc' = "wait_for_clock_low"
    /\ UNCHANGED << notify, data, clock, locals, stdout, peer, char_start,
                    call_start, call_bits, notif_seen, returned, harness, gpio, logger >>

\* Mutant: wait_for_clock_low loops while Clock is LOW, so it returns at once
\* when Clock is still high.
wait_for_clock_low_wrong_level ==
    /\ pc = "wait_for_clock_low"
    /\ inputs_read' = inputs_read \cup {VIRTUAL_CLOCK_LINE}
    /\ IF clock = LOW
       THEN /\ polls < MaxPolls
            /\ polls' = polls + 1
            /\ UNCHANGED << pc, trace, i >>
       ELSE /\ pc' = "for"
            /\ i' = i + 1
            /\ trace' = Append(trace, "ClkLo")
            /\ UNCHANGED polls
    /\ UNCHANGED << lines, bits, c, received_data, received_message, stdout,
                    interrupted, peer, char_start, call_start, call_bits,
                    notif_seen, returned, harness, config, logger >>

\* Mutant: wait_for_clock_low polls VIRTUAL_ENABLE_LINE instead of the Clock
\* line.
wait_for_clock_low_enable ==
    /\ pc = "wait_for_clock_low"
    /\ inputs_read' = inputs_read \cup {VIRTUAL_ENABLE_LINE}
    /\ IF enable = HIGH
       THEN /\ polls < MaxPolls
            /\ polls' = polls + 1
            /\ UNCHANGED << pc, trace, i >>
       ELSE /\ pc' = "for"
            /\ i' = i + 1
            /\ trace' = Append(trace, "ClkLo")
            /\ UNCHANGED polls
    /\ UNCHANGED << lines, bits, c, received_data, received_message, stdout,
                    interrupted, peer, char_start, call_start, call_bits,
                    notif_seen, returned, harness, config, logger >>

\* Mutant: wait_for_clock_low stops polling at the deadline and the loop
\* goes on as if Clock had dropped.
wait_for_clock_low_deadline ==
    /\ pc = "wait_for_clock_low"
    /\ inputs_read' = inputs_read \cup {VIRTUAL_CLOCK_LINE}
    /\ IF clock = HIGH /\ polls < Deadline
       THEN /\ polls' = polls + 1
            /\ UNCHANGED << pc, trace, i >>
       ELSE /\ pc' = "for"
            /\ i' = i + 1
            /\ trace' = Append(trace, "ClkLo")
            /\ UNCHANGED polls
    /\ UNCHANGED << lines, bits, c, received_data, received_message, stdout,
                    interrupted, peer, char_start, call_start, call_bits,
                    notif_seen, returned, harness, config, logger >>

\* One poll of wait_for_clock_low; leaving it ends the loop iteration.
wait_for_clock_low ==
    /\ pc = "wait_for_clock_low"
    /\ inputs_read' = inputs_read \cup {VIRTUAL_CLOCK_LINE}
    /\ IF clock = HIGH
       THEN /\ polls < MaxPolls
            /\ polls' = polls + 1
            /\ UNCHANGED << pc, trace, i >>
       ELSE /\ pc' = "for"
            /\ i' = i + 1
            /\ trace' = Append(trace, "ClkLo")
            /\ UNCHANGED polls
    /\ UNCHANGED << lines, bits, c, received_data, received_message, stdout,
                    interrupted, peer, char_start, call_start, call_bits, notif_seen,
                    returned, harness, config, logger >>

\* return bool_arr_to_char(bits), assigned to c in read_vuart_string.
return_char ==
    /\ pc = "return_char"
    /\ c' = bool_arr_to_char(bits)
    /\ pc' = "test"
    /\ UNCHANGED << lines, i, bits, received_data, received_message, stdout,
                    interrupted, polls, peer, history, harness, gpio, logger >>

\* Mutant: received_data += c comes before the line-feed test.
test_newline_append_first ==
    /\ pc = "test"
    /\ received_data' = Append(received_data, c)
    /\ pc' = IF c = LF THEN "return_string" ELSE "read_char"
    /\ UNCHANGED << lines, i, bits, c, received_message, stdout, interrupted,
                    polls, peer, history, harness, gpio, logger >>

\* Mutant: the terminator tested is '\r', which the peer never sends.
test_newline_cr ==
    /\ pc = "test"
    /\ IF c = 13
       THEN /\ pc' = "return_string"
            /\ UNCHANGED received_data
       ELSE /\ received_data' = Append(received_data, c)
            /\ pc' = "read_char"
    /\ UNCHANGED << lines, i, bits, c, received_message, stdout, interrupted,
                    polls, peer, history, harness, gpio, logger >>

\* if c == '\n': break; otherwise received_data += c and loop.
test_newline ==
    /\ pc = "test"
    /\ IF c = LF
       THEN /\ pc' = "return_string"
            /\ UNCHANGED received_data
       ELSE /\ received_data' = Append(received_data, c)
            /\ pc' = "read_char"
    /\ UNCHANGED << lines, i, bits, c, received_message, stdout, interrupted,
                    polls, peer, history, harness, gpio, logger >>

\* return received_data, assigned to received_message in print_received.
return_string ==
    /\ pc = "return_string"
    /\ received_message' = received_data
    /\ returned' = Append(returned, received_data)
    /\ pc' = "print"
    /\ UNCHANGED << lines, i, bits, c, received_data, stdout, interrupted,
                    polls, peer, trace, char_start, call_start, call_bits, notif_seen,
                    harness, gpio, logger >>

\* Mutant: main calls print_received() once, without the while True, and
\* falls into the finally block.
print_received_once ==
    /\ pc = "print"
    /\ stdout' = Append(stdout, << "Received", received_message >>)
    /\ pc' = "finally"
    /\ UNCHANGED << lines, locals, polls, peer, history, harness, gpio, logger >>

\* print("Received:", received_message); main's while True calls again.
print_received ==
    /\ pc = "print"
    /\ stdout' = Append(stdout, << "Received", received_message >>)
    /\ pc' = "print_received"
    /\ UNCHANGED << lines, locals, polls, peer, history, harness, gpio, logger >>

\* Mutant: an except clause prints what has been received so far.
interrupt_flush ==
    /\ pc \notin {"finally", "done", "harness"}
    /\ pc' = "finally"
    /\ interrupted' = TRUE
    /\ stdout' = Append(stdout, << "Received", received_data >>)
    /\ UNCHANGED << lines, i, bits, c, received_data, received_message,
                    polls, peer, history, harness, gpio, logger >>

\* KeyboardInterrupt raised anywhere inside main's try block.
interrupt ==
    /\ pc \notin {"finally", "done", "harness"}
    /\ pc' = "finally"
    /\ interrupted' = TRUE
    /\ UNCHANGED << lines, i, bits, c, received_data, received_message, stdout,
                    polls, peer, history, harness, gpio, logger >>

\* finally: print("Finished"); the exception then ends the process.
finally ==
    /\ pc = "finally"
    /\ stdout' = Append(stdout, << "Finished", << >> >>)
    /\ pc' = "done"
    /\ UNCHANGED << lines, locals, polls, peer, history, harness, gpio, logger >>

\* ------------------------------------------------------------------- peer
\* Bit k (0 = least significant) of byte b.
BitOf(b, k) == (b \div Pow2(k)) % 2

\* The peer raises or drops Notify at any time.
peer_notify ==
    /\ notify' = 1 - notify
    /\ UNCHANGED << enable, data, clock, pc, locals, stdout, polls, peer,
                    history, harness, gpio, logger >>

\* With Clock low the peer puts the next bit on Data; at a byte boundary it
\* first chooses the byte.
peer_present ==
    /\ spc = "idle"
    /\ IF sk = 0
       THEN /\ Len(sent) < MaxStream
            /\ \E b \in TestBytes : sent' = Append(sent, b)
       ELSE UNCHANGED sent
    /\ data' = BitOf(sent'[Len(sent')], sk)
    /\ spc' = "ready"
    /\ UNCHANGED << notify, enable, clock, pc, locals, stdout, polls, sk,
                    history, harness, gpio, logger >>

\* The peer raises Clock once it sees Enable high.
peer_clock_high ==
    /\ spc = "ready"
    /\ enable = HIGH
    /\ clock' = HIGH
    /\ spc' = "high"
    /\ UNCHANGED << notify, enable, data, pc, locals, stdout, polls, sent, sk,
                    history, harness, gpio, logger >>

\* The peer lowers Clock once it sees Enable low, and moves to the next bit.
peer_clock_low ==
    /\ spc = "high"
    /\ enable = LOW
    /\ clock' = LOW
    /\ sk' = (sk + 1) % 8
    /\ spc' = "idle"
    /\ UNCHANGED << notify, enable, data, pc, locals, stdout, polls, sent,
                    history, harness, gpio, logger >>

Next ==
    \/ main
    \/ read_vuart_string
    \/ wait_for_notif
    \/ read_char
    \/ for_range
    \/ enable_line
    \/ wait_for_clock_high
    \/ read
    \/ disable_line
    \/ wait_for_clock_low
    \/ return_char
    \/ test_newline
    \/ return_string
    \/ print_received
    \/ interrupt
    \/ finally
    \/ peer_notify
    \/ peer_present
    \/ peer_clock_high
    \/ peer_clock_low

Spec == Init /\ [][Next]_vars

\* ---------------------------------------------------- a responsive peer
\* The peer raises Notify whenever it is low.
peer_notify_up ==
    /\ notify = LOW
    /\ notify' = HIGH
    /\ UNCHANGED << enable, data, clock, pc, locals, stdout, polls, peer,
                    history, harness, gpio, logger >>

\* The peer may drop Notify again at any time.
peer_notify_down ==
    /\ notify = HIGH
    /\ notify' = LOW
    /\ UNCHANGED << enable, data, clock, pc, locals, stdout, polls, peer,
                    history, harness, gpio, logger >>

\* As peer_present, and the last byte the peer transmits is a line-feed.
peer_present_responsive ==
    /\ spc = "idle"
    /\ IF sk = 0
       THEN /\ Len(sent) < MaxStream
            /\ \E b \in TestBytes :
                  /\ Len(sent) + 1 = MaxStream => b = LF
                  /\ sent' = Append(sent, b)
       ELSE UNCHANGED sent
    /\ data' = BitOf(sent'[Len(sent')], sk)
    /\ spc' = "ready"
    /\ UNCHANGED << notify, enable, clock, pc, locals, stdout, polls, sk,
                    history, harness, gpio, logger >>

\* The receiver's thread: whichever statement it is at.
Receiver ==
    \/ main
    \/ read_vuart_string
    \/ wait_for_notif
    \/ read_char
    \/ for_range
    \/ enable_line
    \/ wait_for_clock_high
    \/ read
    \/ disable_line
    \/ wait_for_clock_low
    \/ return_char
    \/ test_newline
    \/ return_string
    \/ print_received

NextLive ==
    \/ main
    \/ read_vuart_string
    \/ wait_for_notif
    \/ read_char
    \/ for_range
    \/ enable_line
    \/ wait_for_clock_high
    \/ read
    \/ disable_line
    \/ wait_for_clock_low
    \/ return_char
    \/ test_newline
    \/ return_string
    \/ print_received
    \/ peer_notify_up
    \/ peer_notify_down
    \/ peer_present_responsive
    \/ peer_clock_high
    \/ peer_clock_low

\* The receiver's thread keeps running and the peer keeps answering; no
\* interrupt arrives.  The busy-wait polls without pause, so a level that the
\* peer presents again and again is read in the end: the receiver's fairness
\* is strong.
SpecLive ==
    /\ Init
    /\ [][NextLive]_vars
    /\ SF_vars(Receiver)
    /\ WF_vars(peer_notify_up)
    /\ WF_vars(peer_present_responsive)
    /\ WF_vars(peer_clock_high)
    /\ WF_vars(peer_clock_low)

\* ------------------------------------------- bool_arr_to_char in isolation
\* Every list of 8 booleans that read() can produce is an input.
InitAssemble ==
    /\ notify = LOW
    /\ enable = LOW
    /\ data = LOW
    /\ clock = LOW
    /\ pc = "harness"
    /\ i = 0
    /\ bits = << >>
    /\ c = 0
    /\ received_data = << >>
    /\ received_message = << >>
    /\ stdout = << >>
    /\ interrupted = FALSE
    /\ polls = 0
    /\ sent = << >>
    /\ sk = 0
    /\ spc = "idle"
    /\ trace = << >>
    /\ char_start = 0
    /\ call_start = 0
    /\ call_bits = << >>
    /\ notif_seen = FALSE
    /\ returned = << >>
    /\ in_bits \in [1..AssembleWidth -> BOOLEAN]
    /\ out_char = 0
    /\ config = ConfigAtStart
    /\ inputs_read = {}
    /\ LoggerOff

assemble ==
    /\ pc = "harness"
    /\ out_char' = bool_arr_to_char(in_bits)
    /\ pc' = "assembled"
    /\ UNCHANGED << lines, locals, stdout, polls, peer, history, in_bits, gpio,
                    logger >>

NextAssemble == assemble

SpecAssemble == InitAssemble /\ [][NextAssemble]_vars

\* ------------------------------------------------- vocabulary of the claims
\* The five line operations of one handshake, in order.
Handshake == << "EnHi", "ClkHi", "Sample", "EnLo", "ClkLo" >>

\* How often operation o occurs in t.
Count(t, o) == Len(SelectSeq(t, LAMBDA x : x = o))

\* Operations of the current read_char call, of the current
\* read_vuart_string call.
CharOps == SubSeq(trace, char_start + 1, Len(trace))
CallOps == SubSeq(trace, call_start + 1, Len(trace))

\* Sum of bit[k] * 2^k over the bits of bs from position k+1 on.
RECURSIVE WeightedSum(_, _)
WeightedSum(bs, k) ==
    IF k >= Len(bs) THEN 0
    ELSE (IF bs[k + 1] THEN 2 ^ k ELSE 0) + WeightedSum(bs, k + 1)

\* The LSB-first decomposition of a byte into 8 booleans.
BitsOfByte(b) == [k \in 1..8 |-> (b \div (2 ^ (k - 1))) % 2 = 1]

\* Positions of read_vuart_string between its entry and its return.
CallPcs == { "wait_for_notif", "read_char", "for", "enable",
             "wait_for_clock_high", "read", "disable", "wait_for_clock_low",
             "return_char", "test", "return_string" }

\* The complete messages of byte stream s: the bytes between line-feeds,
\* each message ended by a line-feed that it does not contain.
RECURSIVE Frames(_, _, _)
Frames(s, cur, out) ==
    IF s = << >> THEN out
    ELSE IF Head(s) = 10 THEN Frames(Tail(s), << >>, Append(out, cur))
    ELSE Frames(Tail(s), Append(cur, Head(s)), out)

\* The byte values of the complete groups of 8 sampled levels of bs.
DecodeBits(bs) ==
    [k \in 1..(Len(bs) \div 8) |->
        WeightedSum(SubSeq(bs, 8 * (k - 1) + 1, 8 * k), 0)]

\* The messages the consumer has been given, in order.
Delivered ==
    LET r == SelectSeq(stdout, LAMBDA e : e[1] = "Received")
    IN [k \in 1..Len(r) |-> r[k][2]]

\* The byte stream that messages ms were framed from.
RECURSIVE Joined(_)
Joined(ms) ==
    IF ms = << >> THEN << >>
    ELSE Head(ms) \o << 10 >> \o Joined(Tail(ms))

\* The bytes the receiver has decoded so far: the returned messages with
\* their line-feeds, then the bytes of the call in progress.
Decoded ==
    Joined(returned) \o
    (CASE pc \in {"wait_for_notif", "read_char", "for", "enable",
                  "wait_for_clock_high", "read", "disable",
                  "wait_for_clock_low", "return_char"} -> received_data
       [] pc = "test" -> Append(received_data, c)
       [] pc = "return_string" -> Append(received_data, 10)
       [] OTHER -> << >>)

IsPrefix(a, b) == Len(a) <= Len(b) /\ a = SubSeq(b, 1, Len(a))

\* ---------------------------------------------------------------- claims
\* C1: the receiver's line operations are, bit after bit, Enable high, Clock
\* observed high, Data sampled once, Enable low, Clock observed low; the
\* Enable-high of a bit comes only after the Clock-low of the bit before.
\* The log only grows by appending, so every entry has been among the latest
\* six (one handshake and the operation before it) of some reachable state,
\* and it is enough to look at those.
C1_HandshakeOrder ==
    LET n == Len(trace)
        lo == IF n > 6 THEN n - 5 ELSE 1
    IN /\ \A k \in lo..n : trace[k] = Handshake[((k - 1) % 5) + 1]
       /\ \A k \in (lo + 1)..n : trace[k] = "EnHi" => trace[k - 1] = "ClkLo"

\* C1 witness: a second bit's Enable-high has been written after a complete
\* first handshake.
C1_Witness ==
    Len(trace) = 6 /\ trace[6] = "EnHi" /\ pc = "wait_for_clock_high"

\* C2: when read_char leaves its loop and returns, it has written Enable high
\* 8 times, low 8 times and sampled Data 8 times, in 8 complete handshakes.
C2_EightHandshakes ==
    pc \in {"return_char", "test"} =>
        /\ Count(CharOps, "EnHi") = 8
        /\ Count(CharOps, "EnLo") = 8
        /\ Count(CharOps, "Sample") = 8
        /\ Count(CharOps, "ClkHi") = 8
        /\ Count(CharOps, "ClkLo") = 8
        /\ Len(bits) = 8

\* C2 witness: read_char has returned the character 'h'.
C2_Witness == pc = "test" /\ c = 104 /\ Len(CharOps) = 40

\* C3: bool_arr_to_char returns the sum of bit[i] * 2^i, so assembling the
\* LSB-first decomposition of any byte 0..255 gives the byte back.
C3_AssembleLsbFirst ==
    pc = "assembled" =>
        /\ out_char = WeightedSum(in_bits, 0)
        /\ \A b \in 0..255 : in_bits = BitsOfByte(b) => out_char = b
        /\ \E b \in 0..255 : in_bits = BitsOfByte(b)

\* C3 witness: the bits of 0x68 have been assembled into 0x68.
C3_Witness == pc = "assembled" /\ in_bits = BitsOfByte(104) /\ out_char = 104


\* C4: the bytes the receiver decodes are the bytes the peer transmitted, in
\* order, and the messages read_vuart_string returns are, in order, the byte
\* groups transmitted between line-feeds, whatever the byte values;
\* 0x68 0x69 0x0A gives "hi" and a leading 0x0A gives the empty message.
C4_MessageIsSentBytes ==
    /\ IsPrefix(Decoded, sent)
    /\ IsPrefix(returned, Frames(sent, << >>, << >>))
    /\ (pc = "print" => received_message = returned[Len(returned)])
    /\ (pc = "print" /\ sent = << 104, 105, 10 >> =>
            received_message = << 104, 105 >>)
    /\ (Len(returned) >= 1 /\ sent[1] = 10 => returned[1] = << >>)

\* C4 witness: the stream 'h', 'i', line-feed has been read as "hi".
C4_Witness ==
    /\ pc = "print"
    /\ sent = << 104, 105, 10 >>
    /\ received_message = << 104, 105 >>

\* C5: no line-feed is ever in the message buffer, in a returned message or
\* in a message given to the consumer.
C5_NoLineFeedInMessage ==
    /\ \A k \in 1..Len(received_data) : received_data[k] # 10
    /\ \A k \in 1..Len(received_message) : received_message[k] # 10
    /\ \A n \in 1..Len(returned) :
           \A k \in 1..Len(returned[n]) : returned[n][k] # 10
    /\ \A n \in 1..Len(Delivered) :
           \A k \in 1..Len(Delivered[n]) : Delivered[n][k] # 10

\* C5 witness: a line-feed was assembled after 'h' and "h" was returned.
C5_Witness ==
    pc = "print" /\ c = 10 /\ received_message = << 104 >>

\* C6: inside a read_vuart_string call that has not read Notify high the
\* receiver is in the Notify wait and has done no line operation in the call;
\* a step taken while Notify is low leaves the call in the wait (unless it is
\* interrupted) and leaves Enable and the operation log as they are.
C6_NotifyInv ==
    (pc \in CallPcs /\ ~notif_seen) =>
        pc = "wait_for_notif" /\ CallOps = << >>

C6_NotifyStep ==
    (pc = "wait_for_notif" /\ notify = LOW) =>
        /\ pc' = "wait_for_notif" \/ interrupted'
        /\ enable' = enable
        /\ trace' = trace
        /\ call_bits' = call_bits

C6_NotifyGate == [] C6_NotifyInv /\ [][C6_NotifyStep]_vars

\* C6 witness: a second call sits in the Notify wait, Notify low, after
\* polling as often as is counted.
C6_Witness ==
    /\ pc = "wait_for_notif"
    /\ notify = LOW
    /\ polls = MaxPolls
    /\ Len(returned) = 1

\* C7 as stated: a wait that has outlasted the deadline has been ended by a
\* Timeout, so no wait is still polling past the deadline.
C7_TimeoutAtDeadline ==
    pc \in {"wait_for_notif", "wait_for_clock_high", "wait_for_clock_low"} =>
        polls <= Deadline

\* C7 amended: there is no deadline.  A wait is left only by reading the
\* target level (or by an interrupt), whatever the number of polls before,
\* and the read then goes on at the statement after the wait.
C7_WaitStep ==
    /\ (pc = "wait_for_notif" /\ pc' # pc /\ ~interrupted') =>
           notify = HIGH /\ pc' = "read_char"
    /\ (pc = "wait_for_clock_high" /\ pc' # pc /\ ~interrupted') =>
           clock = HIGH /\ pc' = "read"
    /\ (pc = "wait_for_clock_low" /\ pc' # pc /\ ~interrupted') =>
           clock = LOW /\ pc' = "for"

C7_BlocksUntilSignal == [][C7_WaitStep]_vars

\* C7 witness: a Clock-high wait went on past the deadline and the read then
\* continued with the sample.
C7_Witness == pc = "read" /\ polls > Deadline

\* C8: a call starts with an empty buffer, and what it returns, followed by
\* the line-feed, is the decoding of exactly the levels sampled in that call.
C8_IndependentMessages ==
    /\ (pc = "wait_for_notif" => received_data = << >>)
    /\ (pc = "return_string" =>
            Append(received_data, 10) = DecodeBits(call_bits))
    /\ (pc = "print" =>
            Append(received_message, 10) = DecodeBits(call_bits))

\* C8 witness: after a non-empty first message a second message was returned.
C8_Witness ==
    /\ pc = "print"
    /\ Len(returned) = 2
    /\ returned[1] # << >>
    /\ Len(call_bits) = 8

\* C9: the consumer has been given each returned message once and in order,
\* the latest one outstanding only between the return and the print; after
\* the print the loop calls read_vuart_string again, and the loop ends only
\* by an interrupt.
C9_DeliveryInv ==
    /\ IsPrefix(Delivered, returned)
    /\ IsPrefix(Delivered, Frames(sent, << >>, << >>))
    /\ (~interrupted =>
           Len(returned) = Len(Delivered) + (IF pc = "print" THEN 1 ELSE 0))
    /\ (pc \in {"finally", "done"} => interrupted)

C9_DeliveryStep ==
    /\ (pc = "print" /\ pc' # pc /\ ~interrupted') =>
           /\ pc' = "print_received"
           /\ Delivered' = Append(Delivered, returned[Len(returned)])
    /\ (pc = "print_received" /\ pc' # pc /\ ~interrupted') =>
           pc' = "wait_for_notif"
    /\ (pc # "print" => Delivered' = Delivered)

C9_ReceiveLoop == [] C9_DeliveryInv /\ [][C9_DeliveryStep]_vars

\* C9 witness: two messages delivered and a third read under way.
C9_Witness ==
    /\ Len(Delivered) = 2
    /\ Delivered = returned
    /\ pc = "wait_for_notif"

\* C10: read_vuart_string returns after a positive multiple of 8 complete
\* handshakes since Notify, with a line-feed as the last assembled byte,
\* Enable low and Clock last observed low; the line-feed test is made with
\* all 8 bits of the character sampled.
C10_ReturnAtByteBoundary ==
    /\ (pc \in {"return_string", "print"} =>
           /\ Count(CallOps, "ClkLo") > 0
           /\ Count(CallOps, "ClkLo") % 8 = 0
           /\ Len(CallOps) = 5 * Count(CallOps, "ClkLo")
           /\ notif_seen
           /\ Len(call_bits) = Count(CallOps, "ClkLo")
           /\ c = 10
           /\ enable = LOW
           /\ trace[Len(trace)] = "ClkLo")
    /\ (pc \in {"return_char", "test"} =>
           /\ Len(bits) = 8
           /\ Len(CharOps) = 40
           /\ trace[Len(trace)] = "ClkLo")

\* C10 witness: a two-byte call ('h', line-feed) is returning.
C10_Witness ==
    pc = "return_string" /\ Count(CallOps, "ClkLo") = 16

\* C11: a step taken while the receiver is in a wait and the polled line is
\* not at the target level leaves the receiver in that wait (unless the
\* process is interrupted from outside), returns nothing and gives the
\* consumer nothing; so a line that never reads the target level blocks the
\* receiver in that wait for ever.
C11_BlockedStep ==
    LET blocked == \/ pc = "wait_for_notif" /\ notify = LOW
                   \/ pc = "wait_for_clock_high" /\ clock = LOW
                   \/ pc = "wait_for_clock_low" /\ clock = HIGH
    IN blocked =>
        /\ pc' = pc \/ interrupted'
        /\ returned' = returned
        /\ stdout' = stdout
        /\ << i, bits, c, received_data, received_message >>' =
               << i, bits, c, received_data, received_message >>
        /\ enable' = enable

C11_PermanentBlock == [][C11_BlockedStep]_vars

\* C11 witness: in the second call the receiver has polled Clock, still low
\* after Enable was raised, as often as is counted.
C11_Witness ==
    /\ pc = "wait_for_clock_high"
    /\ clock = LOW
    /\ enable = HIGH
    /\ polls = MaxPolls
    /\ Len(returned) = 1

\* Complete messages the responsive peer is still bound to have transmitted
\* in the end: those sent so far, and one more while it has bytes left, the
\* last of which is a line-feed.
FramesDue ==
    Len(Frames(sent, << >>, << >>)) + (IF Len(sent) < MaxStream THEN 1 ELSE 0)

\* C12: with a responsive peer and a running receiver, a call of
\* read_vuart_string whose terminating line-feed the peer does transmit gets
\* from its Notify wait to the end of print_received: it has returned and its
\* message has been given to the consumer (print_received is reached from
\* inside a call only through the return and the print).
C12_CallsReturn ==
    (pc = "wait_for_notif" /\ FramesDue > Len(returned))
        ~> (pc = "print_received" /\ Delivered = returned)

\* C12 witness: the second call has returned and its message is delivered.
C12_Witness ==
    /\ pc = "print_received"
    /\ Len(Delivered) = 2
    /\ Delivered = returned
    /\ returned[2] # << >>

\* All four channels back to inputs without pull, as GPIO.cleanup() leaves
\* them.
Released ==
    \A ch \in DOMAIN config : config[ch] = << "IN", "PUD_OFF" >>

\* C13 as stated: once the interrupted loop has stopped, the lines are
\* released and the receiver no longer drives Enable high.
C13_OrderlyStop ==
    pc = "done" =>
        /\ Released
        /\ ~(config[VIRTUAL_ENABLE_LINE][1] = "OUT" /\ enable = HIGH)

\* The stop that C13 is about: the loop was interrupted after enable() had
\* driven Enable high and before disable(); the process has ended.
C13_Witness ==
    /\ pc = "done"
    /\ interrupted
    /\ Len(trace) > 0
    /\ trace[Len(trace)] \in {"EnHi", "ClkHi", "Sample"}
    /\ enable = HIGH
    /\ config = ConfigAtStart

\* What stdout holds of one kind of line.
Printed(kind) == Len(SelectSeq(stdout, LAMBDA e : e[1] = kind))

\* C14: an interrupt ends the loop: from the interrupt on nothing is given to
\* the consumer (the partial message is dropped), nothing is returned, no
\* line is operated and no read is started, and "Finished" is printed exactly
\* once, as the last thing.
C14_StopInv ==
    /\ interrupted => pc \in {"finally", "done"}
    /\ Printed("Finished") = (IF pc = "done" THEN 1 ELSE 0)
    /\ pc = "done" => stdout[Len(stdout)][1] = "Finished"

C14_StopStep ==
    interrupted' =>
        /\ Delivered' = Delivered
        /\ returned' = returned
        /\ trace' = trace
        /\ enable' = enable
        /\ received_data' = received_data
        /\ pc' \in {"finally", "done"}
        /\ pc' # pc => (stdout' = stdout) = (pc' = "finally")

C14_InterruptStops == [] C14_StopInv /\ [][C14_StopStep]_vars

\* C14 witness: the loop was interrupted in the middle of the second byte of
\* a message and has stopped with nothing delivered.
C14_Witness ==
    /\ pc = "done"
    /\ received_data = << 104 >>
    /\ Len(bits) = 3
    /\ Delivered = << >>

\* A step of the receiver (every statement moves pc or counts a poll).
ReceiverStep == << pc, polls >>' # << pc, polls >>

\* C16: the set-up of the four channels never changes; the receiver passes
\* only Notify, Data and Clock to GPIO.input; a receiver step leaves the
\* levels of Notify, Data and Clock alone; and Enable changes only in
\* enable() and disable().
C16_FrameInv ==
    /\ config = ConfigAtStart
    /\ inputs_read \subseteq
           {VIRTUAL_NOTIFY_LINE, VIRTUAL_DATA_LINE, VIRTUAL_CLOCK_LINE}

C16_FrameStep ==
    /\ ReceiverStep =>
           /\ << notify, data, clock >>' = << notify, data, clock >>
           /\ config' = config
    /\ enable' # enable =>
           \/ pc = "enable" /\ enable' = HIGH
           \/ pc = "disable" /\ enable' = LOW

C16_OnlyEnableWritten == [] C16_FrameInv /\ [][C16_FrameStep]_vars

\* C16 witness: a whole message has been read, all three inputs read and
\* Enable written.
C16_Witness ==
    /\ pc = "print"
    /\ inputs_read =
           {VIRTUAL_NOTIFY_LINE, VIRTUAL_DATA_LINE, VIRTUAL_CLOCK_LINE}
    /\ Len(trace) >= 40

\* C17: when the receiver takes its k-th sample the peer holds Clock high
\* with its k-th bit on Data, that bit is what is sampled, and Data does not
\* change in the step; the peer moves on to its next bit only after that
\* sample and the Enable-low that follows it.
C17_SampleStep ==
    /\ (Len(trace') = Len(trace) + 1 /\ trace'[Len(trace')] = "Sample") =>
           /\ spc = "high"
           /\ Len(sent) >= 1
           /\ Len(trace) = 5 * (8 * (Len(sent) - 1) + sk) + 2
           /\ bits' = Append(bits, BitOf(sent[Len(sent)], sk) = 1)
           /\ data' = data
    /\ (pc \in {"read"} /\ ~ReceiverStep) => data' = data
    /\ sk' # sk =>
           /\ Len(trace) = 5 * (8 * (Len(sent) - 1) + sk) + 4
           /\ trace[Len(trace)] = "EnLo"

C17_BitsMatch == [][C17_SampleStep]_vars

\* C17 witness: the ninth sample (first bit of the second byte) has been
\* taken from the peer's second byte.
C17_Witness ==
    /\ pc = "disable"
    /\ Len(trace) = 43
    /\ Len(sent) = 2
    /\ sent[1] = 104
    /\ sent[2] = 105
    /\ bits = << TRUE >>

\* C18: Notify is read by level and only in the Notify wait.  A poll that
\* finds it high ends the wait, whether or not it was low before; after that
\* the call never goes back to the Notify wait and every statement of the
\* handshake can run whatever the level of Notify.
C18_LevelInv ==
    /\ (pc = "wait_for_notif" /\ notify = HIGH) => ENABLED Receiver
    /\ pc \in {"read_char", "for", "enable", "read", "disable",
                "return_char", "test", "return_string"} => ENABLED Receiver
    /\ (pc = "wait_for_clock_high" /\ clock = HIGH) => ENABLED Receiver
    /\ (pc = "wait_for_clock_low" /\ clock = LOW) => ENABLED Receiver
    /\ (pc \in CallPcs /\ pc # "wait_for_notif") => notif_seen

C18_LevelStep ==
    /\ (pc = "wait_for_notif" /\ notify = HIGH /\ ReceiverStep) =>
           pc' = "read_char" \/ interrupted'
    /\ (pc \in CallPcs /\ pc # "wait_for_notif") =>
           /\ pc' # "wait_for_notif"
           /\ (ReceiverStep /\ ~interrupted') =>
                  /\ notif_seen' = notif_seen
                  /\ pc' \in CallPcs \/ (pc = "return_string" /\ c = 10)

C18_NotifyByLevel == [] C18_LevelInv /\ [][C18_LevelStep]_vars

\* C18 witness: the second call passed the Notify wait on its first poll, and
\* goes on although Notify has dropped since.
C18_Witness ==
    /\ Len(returned) = 1
    /\ pc = "for"
    /\ polls = 0
    /\ notif_seen
    /\ notify = LOW

\* ------------------------------------------- receive.py: serial JSON logger
\* The two log files.
LogFiles == {"sensor", "gps"}

\* What a log file may hold when the logger starts: no file, an empty file,
\* text that is not JSON, JSON that is not a list, or a JSON list of records.
FileContents ==
    { << "missing" >>, << "empty" >>, << "corrupt" >>, << "object" >>,
      << "list", << >> >>, << "list", << << "old", 0 >> >> >> }

\* load_json_data: the list in the file, or [] for anything else.
load_json_data(content) ==
    IF content[1] = "list" THEN content[2] ELSE << >>

\* What a failed write can leave behind: the old file (open failed), an empty
\* file (truncated by open) or partial text.
AfterFailedWrite(content) == { content, << "empty" >>, << "corrupt" >> }

\* virtualserial.py is not running.
VserialOff ==
    /\ notify = LOW
    /\ enable = LOW
    /\ data = LOW
    /\ clock = LOW
    /\ pc = "harness"
    /\ i = 0
    /\ bits = << >>
    /\ c = 0
    /\ received_data = << >>
    /\ received_message = << >>
    /\ stdout = << >>
    /\ interrupted = FALSE
    /\ polls = 0
    /\ sent = << >>
    /\ sk = 0
    /\ spc = "idle"
    /\ trace = << >>
    /\ char_start = 0
    /\ call_start = 0
    /\ call_bits = << >>
    /\ notif_seen = FALSE
    /\ returned = << >>
    /\ in_bits = [k \in 1..AssembleWidth |-> FALSE]
    /\ out_char = 0
    /\ config = ConfigAtStart
    /\ inputs_read = {}

\* main() has chosen the port and is about to load the log files.
InitLogger ==
    /\ VserialOff
    /\ lpc = "load"
    /\ ser = "None"
    /\ disk \in [LogFiles -> FileContents]
    /\ sensor_data_list = << >>
    /\ gps_data_list = << >>
    /\ loaded = [f \in LogFiles |-> << >>]
    /\ parsed = [f \in LogFiles |-> << >>]
    /\ saves = << >>
    /\ errors = 0
    /\ reopens = 0
    /\ lines_read = 0
    /\ left_by = "none"

\* Mutant: the GPS log is not loaded, the run starts from an empty list.
load_existing_sensor_only ==
    /\ lpc = "load"
    /\ sensor_data_list' = load_json_data(disk["sensor"])
    /\ gps_data_list' = << >>
    /\ loaded' = [f \in LogFiles |-> load_json_data(disk[f])]
    /\ lpc' = "open_port"
    /\ UNCHANGED << ser, disk, parsed, saves, errors, reopens, lines_read,
                    left_by, vserial >>

\* Lines 160-161: both lists are loaded from the log files.
load_existing ==
    /\ lpc = "load"
    /\ sensor_data_list' = load_json_data(disk["sensor"])
    /\ gps_data_list' = load_json_data(disk["gps"])
    /\ loaded' = [f \in LogFiles |-> load_json_data(disk[f])]
    /\ lpc' = "open_port"
    /\ UNCHANGED << ser, disk, parsed, saves, errors, reopens, lines_read,
                    left_by, vserial >>

\* Lines 168-171 and 243-249: serial.Serial(...) opens the port, or raises
\* SerialException or some other exception; either is caught by the outer
\* try and control goes to the finally clause with ser still None.
open_port ==
    /\ lpc = "open_port"
    /\ \E outcome \in {"ok", "open_failed", "exception"} :
          IF outcome = "ok"
          THEN /\ ser' = "open"
               /\ lpc' = "loop"
               /\ UNCHANGED left_by
          ELSE /\ ser' = "None"
               /\ lpc' = "finally"
               /\ left_by' = outcome
    /\ UNCHANGED << disk, sensor_data_list, gps_data_list, loaded, parsed,
                    saves, errors, reopens, lines_read, vserial >>

\* Lines 175-228: one iteration that reads a line.  A line that is empty or
\* matches no pattern is skipped; a GPS or sensor packet is parsed and its
\* record appended to its list.
loop_read ==
    /\ lpc = "loop"
    /\ lines_read < MaxLines
    /\ lines_read' = lines_read + 1
    /\ \E kind \in {"skip", "gps", "sensor"} :
          /\ sensor_data_list' =
                 IF kind = "sensor"
                 THEN Append(sensor_data_list, << kind, lines_read' >>)
                 ELSE sensor_data_list
          /\ gps_data_list' =
                 IF kind = "gps"
                 THEN Append(gps_data_list, << kind, lines_read' >>)
                 ELSE gps_data_list
          /\ parsed' =
                 IF kind = "skip"
                 THEN parsed
                 ELSE [parsed EXCEPT ![kind] = Append(@, << kind, lines_read' >>)]
    /\ UNCHANGED << lpc, ser, disk, loaded, saves, errors, reopens, left_by,
                    vserial >>

\* Lines 230-232: in_waiting or readline raises SerialException; the inner
\* handler is entered.
loop_serial_error ==
    /\ lpc = "loop"
    /\ errors < MaxErrors
    /\ errors' = errors + 1
    /\ lpc' = "handler_close"
    /\ UNCHANGED << ser, disk, sensor_data_list, gps_data_list, loaded,
                    parsed, saves, reopens, lines_read, left_by, vserial >>

\* Lines 248-249: any other exception raised in the loop body (reading,
\* decoding, parsing) is caught by the outer try.
loop_exception ==
    /\ lpc = "loop"
    /\ lpc' = "finally"
    /\ left_by' = "exception"
    /\ UNCHANGED << ser, disk, sensor_data_list, gps_data_list, loaded,
                    parsed, saves, errors, reopens, lines_read, vserial >>

\* Lines 233-234: the handler closes the port if it is open.
handler_close ==
    /\ lpc = "handler_close"
    /\ ser' = IF ser = "open" THEN "closed" ELSE ser
    /\ lpc' = "handler_sleep"
    /\ UNCHANGED << disk, sensor_data_list, gps_data_list, loaded, parsed,
                    saves, errors, reopens, lines_read, left_by, vserial >>

\* Line 235: time.sleep(5).
handler_sleep ==
    /\ lpc = "handler_sleep"
    /\ lpc' = "handler_reopen"
    /\ UNCHANGED << ser, disk, sensor_data_list, gps_data_list, loaded,
                    parsed, saves, errors, reopens, lines_read, left_by,
                    vserial >>

\* Mutant: a failed reopen does not break, the loop goes on.
handler_reopen_continue ==
    /\ lpc = "handler_reopen"
    /\ reopens' = reopens + 1
    /\ \E outcome \in {"ok", "reconnect_failed", "exception"} :
          IF outcome = "ok"
          THEN /\ ser' = "open"
               /\ lpc' = "loop"
               /\ UNCHANGED left_by
          ELSE IF outcome = "reconnect_failed"
          THEN /\ lpc' = "loop"
               /\ UNCHANGED << ser, left_by >>
          ELSE /\ lpc' = "finally"
               /\ left_by' = outcome
               /\ UNCHANGED ser
    /\ UNCHANGED << disk, sensor_data_list, gps_data_list, loaded, parsed,
                    saves, errors, lines_read, vserial >>

\* Lines 236-241: one ser.open().  On success the loop resumes; on
\* SerialException the handler breaks out of the loop, which ends the try
\* body; any other exception goes to the outer handler.
handler_reopen ==
    /\ lpc = "handler_reopen"
    /\ reopens' = reopens + 1
    /\ \E outcome \in {"ok", "reconnect_failed", "exception"} :
          IF outcome = "ok"
          THEN /\ ser' = "open"
               /\ lpc' = "loop"
               /\ UNCHANGED left_by
          ELSE /\ lpc' = "finally"
               /\ left_by' = outcome
               /\ UNCHANGED ser
    /\ UNCHANGED << disk, sensor_data_list, gps_data_list, loaded, parsed,
                    saves, errors, lines_read, vserial >>

\* Lines 246-247: Ctrl+C anywhere inside the outer try (the port opening, the
\* loop or the reconnect handler).
keyboard_interrupt ==
    /\ lpc \in {"open_port", "loop", "handler_close", "handler_sleep",
                "handler_reopen"}
    /\ lpc' = "finally"
    /\ left_by' = "ctrl_c"
    /\ UNCHANGED << ser, disk, sensor_data_list, gps_data_list, loaded,
                    parsed, saves, errors, reopens, lines_read, vserial >>

\* Lines 250-259: Ctrl+C while the finally clause runs is caught by nothing;
\* it ends main() there.
keyboard_interrupt_finally ==
    /\ lpc \in {"finally", "save_sensor", "save_gps"}
    /\ lpc' = "killed"
    /\ UNCHANGED << ser, disk, sensor_data_list, gps_data_list, loaded,
                    parsed, saves, errors, reopens, lines_read, left_by,
                    vserial >>

\* Lines 251-253: the finally clause closes the port if it is open.
finally_close ==
    /\ lpc = "finally"
    /\ ser' = IF ser = "open" THEN "closed" ELSE ser
    /\ lpc' = "save_sensor"
    /\ UNCHANGED << disk, sensor_data_list, gps_data_list, loaded, parsed,
                    saves, errors, reopens, lines_read, left_by, vserial >>

\* save_json_data (lines 116-125): the file holds the list, or the write
\* fails with IOError or TypeError, which is reported and swallowed.
save_json_data(f, data_list) ==
    \E ok \in BOOLEAN :
        /\ saves' = Append(saves, << f, data_list, ok >>)
        /\ IF ok
           THEN disk' = [disk EXCEPT ![f] = << "list", data_list >>]
           ELSE \E left \in AfterFailedWrite(disk[f]) :
                    disk' = [disk EXCEPT ![f] = left]

\* Line 257.
save_sensor ==
    /\ lpc = "save_sensor"
    /\ save_json_data("sensor", sensor_data_list)
    /\ lpc' = "save_gps"
    /\ UNCHANGED << ser, sensor_data_list, gps_data_list, loaded, parsed,
                    errors, reopens, lines_read, left_by, vserial >>

\* Line 258.
save_gps ==
    /\ lpc = "save_gps"
    /\ save_json_data("gps", gps_data_list)
    /\ lpc' = "exit"
    /\ UNCHANGED << ser, sensor_data_list, gps_data_list, loaded, parsed,
                    errors, reopens, lines_read, left_by, vserial >>

NextLogger ==
    \/ load_existing
    \/ open_port
    \/ loop_read
    \/ loop_serial_error
    \/ loop_exception
    \/ handler_close
    \/ handler_sleep
    \/ handler_reopen
    \/ keyboard_interrupt
    \/ keyboard_interrupt_finally
    \/ finally_close
    \/ save_sensor
    \/ save_gps

SpecLogger == InitLogger /\ [][NextLogger]_vars

\* The list loaded from a log file followed by the records parsed for it.
Full(f) == loaded[f] \o parsed[f]

\* The two calls of save_json_data the finally clause makes.
SavesDue ==
    << << "sensor", Full("sensor") >>, << "gps", Full("gps") >> >>

\* The calls of save_json_data so far, without their outcome.
SaveCalls == [k \in 1..Len(saves) |-> << saves[k][1], saves[k][2] >>]

\* The main function has ended, normally or by an uncaught interrupt.
Ended == lpc \in {"exit", "killed"}

\* C19 as stated: however the port-open step is left, both files then hold
\* the loaded list followed by the parsed records.
C19_AlwaysSaved ==
    Ended =>
        \A f \in LogFiles : disk[f][1] = "list" /\ disk[f][2] = Full(f)

\* C19 amended: the lists in memory are always the loaded list followed by
\* the parsed records (they only grow by appending); every way of leaving the
\* try body reaches the finally clause, which calls save_json_data once for
\* the sensor list and then once for the GPS list, with those lists; a write
\* that succeeds leaves exactly that list in the file.  A save is missing
\* only when Ctrl+C arrives inside the finally clause, and a file differs from
\* its list only when its write failed or did not happen.
C19_SaveInv ==
    /\ lpc # "load" =>
           /\ sensor_data_list = Full("sensor")
           /\ gps_data_list = Full("gps")
    /\ IsPrefix(SaveCalls, SavesDue)
    /\ lpc = "exit" => SaveCalls = SavesDue /\ left_by # "none"
    /\ lpc = "killed" => left_by # "none"
    /\ Ended =>
           \A k \in 1..Len(saves) :
               saves[k][3] =>
                   /\ disk[saves[k][1]][1] = "list"
                   /\ disk[saves[k][1]][2] = Full(saves[k][1])
    /\ left_by # "none" =>
           lpc \in {"finally", "save_sensor", "save_gps", "exit", "killed"}

C19_SaveStep ==
    /\ lpc # "load" =>
           /\ loaded' = loaded
           /\ IsPrefix(sensor_data_list, sensor_data_list')
           /\ IsPrefix(gps_data_list, gps_data_list')
    /\ disk' # disk => lpc \in {"save_sensor", "save_gps"}
    /\ left_by # "none" => parsed' = parsed

C19_SavedOnEveryExit == [] C19_SaveInv /\ [][C19_SaveStep]_vars

\* C19 witness: a run that loaded an old sensor record, parsed a sensor and a
\* GPS record, left the loop by a failed reconnect and saved both files.
C19_Witness ==
    /\ lpc = "exit"
    /\ left_by = "reconnect_failed"
    /\ Len(loaded["sensor"]) = 1
    /\ Len(parsed["sensor"]) = 1
    /\ Len(parsed["gps"]) = 1
    /\ disk["sensor"] = << "list", Full("sensor") >>
    /\ disk["gps"] = << "list", Full("gps") >>

HandlerPcs == {"handler_close", "handler_sleep", "handler_reopen"}

\* C20 as stated: every serial error gets its reopen attempt.
C20_AlwaysOneReopen ==
    (lpc \notin HandlerPcs) => reopens = errors

\* C20 amended: a serial error closes the port if open and then, unless
\* Ctrl+C arrives first, makes one reopen attempt.  After a successful
\* attempt the loop reads on with the records kept; after a failed one the
\* loop is left for the finally clause and nothing is read again.  No read
\* is made on a port that is not open.
C20_ReopenInv ==
    /\ lpc = "loop" => ser = "open" /\ reopens = errors /\ left_by = "none"
    /\ lpc \in HandlerPcs => reopens = errors - 1 /\ left_by = "none"
    /\ lpc \in {"handler_sleep", "handler_reopen"} => ser = "closed"
    /\ lpc \notin HandlerPcs =>
           \/ reopens = errors
           \/ reopens = errors - 1 /\ left_by = "ctrl_c"
    /\ left_by \in {"reconnect_failed", "open_failed"} =>
           ser # "open" /\ lpc \notin HandlerPcs \cup {"loop"}

C20_ReopenStep ==
    /\ errors' # errors =>
           lpc = "loop" /\ lpc' = "handler_close" /\ errors' = errors + 1
    /\ reopens' # reopens =>
           /\ lpc = "handler_reopen"
           /\ reopens' = reopens + 1
           /\ << sensor_data_list, gps_data_list >>' =
                  << sensor_data_list, gps_data_list >>
           /\ \/ lpc' = "loop" /\ ser' = "open" /\ left_by' = "none"
              \/ lpc' = "finally" /\ ser' = "closed" /\ left_by' # "none"
    /\ lpc \in HandlerPcs =>
           /\ lines_read' = lines_read
           /\ lpc' = "loop" => lpc = "handler_reopen"
    /\ lines_read' # lines_read => lpc = "loop" /\ ser = "open"
    /\ left_by # "none" =>
           /\ lines_read' = lines_read
           /\ reopens' = reopens
           /\ lpc' \notin HandlerPcs \cup {"loop"}

C20_OneReopen == [] C20_ReopenInv /\ [][C20_ReopenStep]_vars

\* C20 witness: a record was logged, a serial error was followed by one
\* successful reopen, and another record was logged after it.
C20_Witness ==
    /\ lpc = "loop"
    /\ errors = 1
    /\ reopens = 1
    /\ Len(sensor_data_list) = 2
    /\ loaded["sensor"] = << >>
    /\ sensor_data_list[2][2] = 3

====
